---- MODULE Spec2Model ----
(***************************************************************************)
(* SharedFS (src/src/SharedFS.js): a virtual directory tree over a tree    *)
(* index (this._db) and a blob store (this._ipfs).  The model covers the   *)
(* lifecycle (start/stop), the serial update queue (_updateQueue,          *)
(* _onDbUpdate) and the mutation API (upload, mkdir, mkfile, mutate, read, *)
(* remove).  Every action is one run-to-completion segment of an async     *)
(* function: from a call or the resumption of an await up to the next      *)
(* await or return.                                                        *)
(***************************************************************************)
EXTENDS Integers, Sequences, FiniteSets, TLC

\* ------------------------------------------------------------------ bounds
MaxStarts == 2      \* start() calls that pass the guard of start()
MaxStops == 2       \* stop() calls that pass the guard of stop()
MaxInflight == 1    \* API calls suspended at an await at the same time
MaxDepth == 2       \* longest path below the root '/r'

\* ------------------------------------------------------- paths and values
Names == {"a"}

\* A path is the sequence of names below the root; Root models '/r'.
Root == <<>>

Paths == UNION {[1..n -> Names] : n \in 0..MaxDepth}

joinPath(path, name) == Append(path, name)

\* upload: prefix(fsPath) and name(fsPath), the split at the last '/'.
prefix(p) == IF p = <<>> THEN <<>> ELSE SubSeq(p, 1, Len(p) - 1)

IsPrefix(p, q) == Len(p) <= Len(q) /\ SubSeq(q, 1, Len(p)) = p

\* The well-formed identifier strings.  A file may also hold "bad" (a
\* malformed string) or "unset" (nothing written yet).
Cids == {"cidX", "cidY"}

EmptyFileCid == "cidEmpty"

\* The six signals the update handler is subscribed to by start().
Signals == {"replicated", "upload", "mkdir", "mkfile", "mutate", "remove"}

\* The error constructors of the `errors` table.
errors == {"pathExistNo", "pathExistYes", "pathDirNo"}

\* throw errors.x(path): a constructor missing from the table is a TypeError.
Throw(x) == IF x \in errors THEN x ELSE "TypeError"

VARIABLES
  running,      \* this.running: "null", "true" or "false"
  cidReady,     \* this._emptyFile and this._CID have been set
  optLoad,      \* this.options.load
  starts,       \* start() calls suspended at an await: pc -> how many
  startCalls,   \* start() calls that have passed the guard
  stops,        \* stop() calls suspended at an await: <<pc, drop>> -> how many
  stopCalls,    \* stop() calls that have passed the guard
  listeners,    \* signal -> number of registrations of _onDbUpdate
  queue,        \* _updateQueue: pending (executing jobs), size (waiting jobs)
  db,           \* the tree index: path -> "absent", "dir" or a file's value
  ops,          \* API calls suspended at an await, in call order
  loadCount,    \* calls of this._db.load()
  onStopCount,  \* calls of the teardown hook this._onStop()
  closeCount,   \* calls of this._db.close()
  dropCount,    \* calls of this._db.drop()
  startEmits,   \* emissions of 'start'
  stopEmits,    \* emissions of 'stop'
  lastCall,     \* the API call made by the last step, with its outcome
  lastTrig,     \* the invocations of _onDbUpdate made by the last step
  lastRet,      \* the suspended API call the last step completed
  lastEmit,     \* the signal the last step emitted ("trigger": start's call)
  uncovered,    \* an event of a started, not yet stopped engine that no
                \* job has begun executing after
  cat           \* util's catCid: the call in progress, or the last one

vars == <<running, cidReady, optLoad, starts, startCalls, stops, stopCalls,
          listeners, queue, db, ops, loadCount, onStopCount, closeCount,
          dropCount, startEmits, stopEmits, lastCall, lastTrig, lastRet,
          lastEmit, uncovered, cat>>

\* The state of the engine (all but util's catCid).
engine == <<running, cidReady, optLoad, starts, startCalls, stops, stopCalls,
            listeners, queue, db, ops, loadCount, onStopCount, closeCount,
            dropCount, startEmits, stopEmits, lastCall, lastTrig, lastRet,
            lastEmit, uncovered>>

\* --------------------------------------------------------- the tree index
EmptyTree == [p \in Paths |-> IF p = Root THEN "dir" ELSE "absent"]

SampleTree == [p \in Paths |->
                 IF p = Root \/ p = <<"a">> THEN "dir"
                 ELSE IF p = <<"a", "a">> THEN "bad"
                 ELSE "absent"]

\* this.fs.exists, this.fs.content, this.fs.read (bound in the constructor)
exists(d, p) == p \in Paths /\ d[p] # "absent"

content(d, p) == IF ~exists(d, p) THEN "undefined"
                 ELSE IF d[p] = "dir" THEN "dir" ELSE "file"

\* this._db.mkdir / mk / write / rm / rmdir.  The index refuses an entry
\* whose parent is not a directory, and keeps an entry that already exists.
DbMkdir(d, p) == IF p \in Paths /\ d[p] = "absent" /\ d[prefix(p)] = "dir"
                 THEN [d EXCEPT ![p] = "dir"] ELSE d

DbMk(d, p) == IF p \in Paths /\ d[p] = "absent" /\ d[prefix(p)] = "dir"
              THEN [d EXCEPT ![p] = "unset"] ELSE d

DbWrite(d, p, v) == IF content(d, p) = "file" THEN [d EXCEPT ![p] = v] ELSE d

DbRm(d, p) == IF content(d, p) = "file" THEN [d EXCEPT ![p] = "absent"] ELSE d

DbRmdir(d, p) == IF content(d, p) = "dir" /\ p # Root
                 THEN [q \in Paths |-> IF IsPrefix(p, q) THEN "absent" ELSE d[q]]
                 ELSE d

\* this._db.drop(): the index is destroyed.
DbDrop(d) == EmptyTree

\* ------------------------------------------------------- the update queue
\* new PQueue({ concurrency: 1 })
Concurrency == 1

IdleQueue == [pending |-> 0, size |-> 0]

\* A queue with nothing waiting (what onEmpty() waits for).
IdleEmpty(q) == q.size = 0

\* What onIdle() waits for: nothing waiting and nothing executing.
Idle(q) == q.pending = 0 /\ q.size = 0

Jobs(q) == q.pending + q.size

\* A mutant that starts a waiting job whatever is executing.
TryToStartAnotherAny(q) ==
  IF q.size > 0 THEN [pending |-> q.pending + 1, size |-> q.size - 1] ELSE q

\* PQueue: a waiting job starts when fewer than Concurrency jobs execute.
TryToStartAnother(q) ==
  IF q.size > 0 /\ q.pending < Concurrency
  THEN [pending |-> q.pending + 1, size |-> q.size - 1]
  ELSE q

\* _updateQueue.add(job): the job joins the waiting list and starts at once
\* when the queue allows it.
QueueAdd(q) == TryToStartAnother([q EXCEPT !.size = @ + 1])

\* A mutant that never coalesces: every trigger adds a job.
OnDbUpdateAlways(q) == QueueAdd(q)

\* A mutant that also coalesces with the executing job.
OnDbUpdateBusy(q) == IF q.size = 0 /\ q.pending = 0 THEN QueueAdd(q) ELSE q

\* _onDbUpdate: size === 0 && add(() => this._getCid())
OnDbUpdate(q) == IF q.size = 0 THEN QueueAdd(q) ELSE q

\* emit(signal): the handler runs once per registration, synchronously.
RECURSIVE Deliver(_, _)
Deliver(q, n) == IF n = 0 THEN q ELSE Deliver(OnDbUpdate(q), n - 1)

\* What each of these n invocations found and did.
RECURSIVE TrigLog(_, _)
TrigLog(q, n) ==
  IF n = 0 THEN <<>>
  ELSE <<[waiting |-> q.size, added |-> Jobs(OnDbUpdate(q)) - Jobs(q)]>>
       \o TrigLog(OnDbUpdate(q), n - 1)

\* ---------------------------------------------------------- util: catCid
\* Byte sequences: the empty one (new Uint8Array()) and a plaintext.
EmptyBytes == <<>>

Plain == <<104, 105>>

\* Raw keys and initialisation vectors.  "k1", "k2" are keys the cipher
\* suite imports, "short" is one it rejects.
RawKeys == {"k1", "k2", "short"}

RawIvs == {"iv1", "iv2"}

\* The blobs of the store: a plaintext, the plaintext encrypted under k1 and
\* iv1, and that ciphertext with a byte changed.
Blobs == {[kind |-> "plain", bytes |-> Plain, key |-> "", iv |-> ""],
          [kind |-> "cipher", bytes |-> Plain, key |-> "k1", iv |-> "iv1"],
          [kind |-> "tampered", bytes |-> Plain, key |-> "k1", iv |-> "iv1"]}

\* b64.fromByteArray and b64.toByteArray: the encoding of raw bytes, and the
\* decoding that throws on a string that is not base64.
fromByteArray(raw) == "b64:" \o raw

toByteArray(str) ==
  IF \E raw \in RawKeys \cup RawIvs : fromByteArray(raw) = str
  THEN CHOOSE raw \in RawKeys \cup RawIvs : fromByteArray(raw) = str
  ELSE "Error"

\* The strings a caller may pass as key and as iv: encoded ones, a string
\* that is not base64, and the empty string (no key, no iv).
KeyArgs == {fromByteArray(k) : k \in RawKeys} \cup {"%%%", ""}

IvArgs == {fromByteArray(v) : v \in RawIvs} \cup {"%%%", ""}

\* Crypter.importKey(raw): the key, or a rejection.
importKey(raw) == IF raw \in {"k1", "k2"} THEN raw ELSE "Error"

\* crypter.decrypt(bytes, iv) of an authenticated cipher: the plaintext
\* under the key and iv of the encryption and on intact bytes, else a
\* rejection.
decrypt(key, blob, iv) ==
  IF blob.kind = "cipher" /\ blob.key = key /\ blob.iv = iv
  THEN [ok |-> TRUE, bytes |-> blob.bytes]
  ELSE [ok |-> FALSE, bytes |-> EmptyBytes]

\* How a call of catCid ends.
Returned(bytes) == [status |-> "returned", bytes |-> bytes]

Thrown == [status |-> "thrown", bytes |-> EmptyBytes]

Pending == [status |-> "pending", bytes |-> EmptyBytes]

\* A catch block that lets the error go on to the caller.
catchRethrow == Thrown

\* catCid's catch block: log, return new Uint8Array().
catchDecrypt == Returned(EmptyBytes)

CatPcs == {"idle", "awaitGet", "awaitCat", "awaitImport", "awaitCreate",
           "awaitDecrypt", "done"}

CatIdle == [pc |-> "idle", blob |-> [kind |-> "plain", bytes |-> Plain,
                                     key |-> "", iv |-> ""],
            crypter |-> FALSE, key |-> "", iv |-> "", cryptoKey |-> "",
            failed |-> "none", result |-> Pending]

\* catCid(ipfs, cid, { Crypter, key, iv }) up to await all(ipfs.get(cid)).
CatCall(blob, crypter, key, iv) ==
  /\ cat.pc \in {"idle", "done"}
  /\ cat' = [pc |-> "awaitGet", blob |-> blob, crypter |-> crypter,
             key |-> key, iv |-> iv, cryptoKey |-> "", failed |-> "none",
             result |-> Pending]
  /\ UNCHANGED engine

\* ipfs.get(cid) has yielded the size: await combineChunks(ipfs.cat(cid)).
CatGot ==
  /\ cat.pc = "awaitGet"
  /\ cat' = [cat EXCEPT !.pc = "awaitCat"]
  /\ UNCHANGED engine

\* The blob store rejects get or cat: the error goes to the caller (the
\* awaits are outside the try block).
CatStoreFails ==
  /\ cat.pc \in {"awaitGet", "awaitCat"}
  /\ cat' = [cat EXCEPT !.pc = "done", !.failed = "store", !.result = Thrown]
  /\ UNCHANGED engine

\* The content is there: without a cipher bundle it is returned as it is,
\* else the try block begins with importKey(b64.toByteArray(key).buffer).
CatCombined ==
  /\ cat.pc = "awaitCat"
  /\ cat' = IF ~cat.crypter \/ cat.key = "" \/ cat.iv = ""
            THEN [cat EXCEPT !.pc = "done",
                             !.result = Returned(cat.blob.bytes)]
            ELSE IF toByteArray(cat.key) = "Error"
            THEN [cat EXCEPT !.pc = "done", !.failed = "import",
                             !.result = catchDecrypt]
            ELSE [cat EXCEPT !.pc = "awaitImport"]
  /\ UNCHANGED engine

\* importKey settles: await Crypter.create(cryptoKey), or the catch block.
CatImported ==
  /\ cat.pc = "awaitImport"
  /\ cat' = IF importKey(toByteArray(cat.key)) = "Error"
            THEN [cat EXCEPT !.pc = "done", !.failed = "import",
                             !.result = catchDecrypt]
            ELSE [cat EXCEPT !.pc = "awaitCreate",
                             !.cryptoKey = importKey(toByteArray(cat.key))]
  /\ UNCHANGED engine

\* create settles: crypter.decrypt(contentBuf.buffer, b64.toByteArray(iv)).
CatCreated ==
  /\ cat.pc = "awaitCreate"
  /\ cat' = IF toByteArray(cat.iv) = "Error"
            THEN [cat EXCEPT !.pc = "done", !.failed = "decrypt",
                             !.result = catchDecrypt]
            ELSE [cat EXCEPT !.pc = "awaitDecrypt"]
  /\ UNCHANGED engine

\* decrypt settles: the plaintext is returned, or the catch block runs.
CatDecrypted ==
  /\ cat.pc = "awaitDecrypt"
  /\ LET d == decrypt(cat.cryptoKey, cat.blob, toByteArray(cat.iv))
     IN  cat' = IF d.ok
                THEN [cat EXCEPT !.pc = "done",
                                 !.result = Returned(d.bytes)]
                ELSE [cat EXCEPT !.pc = "done", !.failed = "decrypt",
                                 !.result = catchDecrypt]
  /\ UNCHANGED engine

\* -------------------------------------------------------------- lifecycle
StartPcs == {"awaitAdd", "awaitLoad"}

StopPcs == {"awaitOnStop", "awaitIdle", "awaitDb"}

StopKeys == StopPcs \X BOOLEAN

NoCall == [op |-> "none", path |-> Root, name |-> "", cid |-> "",
           kind |-> "undefined", target |-> FALSE, outcome |-> "none",
           mutator |-> FALSE]

NoRet == [ev |-> "none", path |-> Root, state |-> "", left |-> 0,
          outcome |-> "none"]

\* The return of a suspended call: its operation, its path, the run state
\* at the time of the call (a read), the add results not yet applied (an
\* upload) and what the caller's promise settles to.
Ret(op, outcome) == [ev |-> op.ev, path |-> op.path,
                     state |-> IF op.ev = "read" THEN op.todo[1] ELSE "",
                     left |-> IF op.ev = "upload" THEN Len(op.todo) ELSE 0,
                     outcome |-> outcome]

\* An event of a started engine on which no stop() has acted yet.
Live == running = "true" /\ \A k \in StopKeys : stops[k] = 0
        /\ closeCount + dropCount = 0

\* uncovered after this step's emission turned the queue from q to q2.
Cover(q, q2) == IF q2.pending > q.pending THEN FALSE
                ELSE IF Live THEN TRUE ELSE uncovered

Init ==
  /\ running = "null"
  /\ cidReady = FALSE
  /\ optLoad \in BOOLEAN
  /\ starts = [pc \in StartPcs |-> 0]
  /\ startCalls = 0
  /\ stops = [k \in StopKeys |-> 0]
  /\ stopCalls = 0
  /\ listeners = [s \in Signals |-> 0]
  /\ queue = IdleQueue
  /\ db = SampleTree
  /\ ops = <<>>
  /\ loadCount = 0
  /\ onStopCount = 0
  /\ closeCount = 0
  /\ dropCount = 0
  /\ startEmits = 0
  /\ stopEmits = 0
  /\ lastCall = NoCall
  /\ lastTrig = <<>>
  /\ lastRet = NoRet
  /\ lastEmit = "none"
  /\ uncovered = FALSE
  /\ cat = CatIdle

\* start(), lines 70-78: trigger, six subscriptions, running, 'start'.
StartTail ==
  /\ queue' = OnDbUpdate(queue)
  /\ lastTrig' = TrigLog(queue, 1)
  /\ lastEmit' = "trigger"
  /\ uncovered' = (IF queue'.pending > queue.pending THEN FALSE ELSE uncovered)
  /\ listeners' = [s \in Signals |-> listeners[s] + 1]
  /\ running' = "true"
  /\ startEmits' = startEmits + 1

\* start(): the guard, then await last(this._ipfs.add('')).
StartCall ==
  /\ startCalls < MaxStarts
  /\ IF running # "null"
     THEN UNCHANGED <<starts, startCalls>>
     ELSE /\ starts' = [starts EXCEPT !["awaitAdd"] = @ + 1]
          /\ startCalls' = startCalls + 1
  /\ lastCall' = NoCall
  /\ lastRet' = NoRet
  /\ lastTrig' = <<>>
  /\ lastEmit' = "none"
  /\ UNCHANGED <<cat, running, cidReady, optLoad, stops, stopCalls, listeners,
                 queue, db, ops, loadCount, onStopCount, closeCount,
                 dropCount, startEmits, stopEmits, uncovered>>

\* start() resumes with the empty-content identifier.
StartAdded ==
  /\ starts["awaitAdd"] > 0
  /\ cidReady' = TRUE
  /\ lastCall' = NoCall
  /\ lastRet' = NoRet
  /\ IF optLoad
     THEN /\ loadCount' = loadCount + 1
          /\ starts' = [starts EXCEPT !["awaitAdd"] = @ - 1,
                                      !["awaitLoad"] = @ + 1]
          /\ lastTrig' = <<>>
          /\ lastEmit' = "none"
          /\ UNCHANGED <<queue, uncovered, listeners, running, startEmits>>
     ELSE /\ starts' = [starts EXCEPT !["awaitAdd"] = @ - 1]
          /\ StartTail
          /\ UNCHANGED loadCount
  /\ UNCHANGED <<cat, optLoad, startCalls, stops, stopCalls, db, ops, onStopCount,
                 closeCount, dropCount, stopEmits>>

\* start() resumes after this._db.load().
StartLoaded ==
  /\ starts["awaitLoad"] > 0
  /\ starts' = [starts EXCEPT !["awaitLoad"] = @ - 1]
  /\ StartTail
  /\ lastCall' = NoCall
  /\ lastRet' = NoRet
  /\ UNCHANGED <<cat, cidReady, optLoad, startCalls, stops, stopCalls, db, ops,
                 loadCount, onStopCount, closeCount, dropCount, stopEmits>>

\* stop({ drop }): the guard, then await this._onStop().
StopCall(drop) ==
  /\ stopCalls < MaxStops
  /\ IF running # "true"
     THEN UNCHANGED <<stops, stopCalls, onStopCount>>
     ELSE /\ stopCalls' = stopCalls + 1
          /\ onStopCount' = onStopCount + 1
          /\ stops' = [stops EXCEPT ![<<"awaitOnStop", drop>>] = @ + 1]
  /\ lastCall' = NoCall
  /\ lastRet' = NoRet
  /\ lastTrig' = <<>>
  /\ lastEmit' = "none"
  /\ UNCHANGED <<cat, running, cidReady, optLoad, starts, startCalls, listeners,
                 queue, db, ops, loadCount, closeCount, dropCount, startEmits,
                 stopEmits, uncovered>>

\* stop() resumes after the hook: six removeListener, then await onIdle().
\* removeListener takes away one registration of the handler, if any.
StopHookDone(drop) ==
  /\ stops[<<"awaitOnStop", drop>>] > 0
  /\ stops' = [stops EXCEPT ![<<"awaitOnStop", drop>>] = @ - 1,
                            ![<<"awaitIdle", drop>>] = @ + 1]
  /\ listeners' = [s \in Signals |->
                     IF listeners[s] > 0 THEN listeners[s] - 1 ELSE 0]
  /\ lastCall' = NoCall
  /\ lastRet' = NoRet
  /\ lastTrig' = <<>>
  /\ lastEmit' = "none"
  /\ UNCHANGED <<cat, running, cidReady, optLoad, starts, startCalls, stopCalls,
                 queue, db, ops, loadCount, onStopCount, closeCount,
                 dropCount, startEmits, stopEmits, uncovered>>

\* stop() resumes once the queue is idle (the continuation of onIdle() runs
\* right after the queue reports idle): await this._db.drop() or close().
StopIdle(drop) ==
  /\ stops[<<"awaitIdle", drop>>] > 0
  /\ Idle(queue)
  /\ stops' = [stops EXCEPT ![<<"awaitIdle", drop>>] = @ - 1,
                            ![<<"awaitDb", drop>>] = @ + 1]
  /\ IF drop
     THEN /\ dropCount' = dropCount + 1
          /\ db' = DbDrop(db)
          /\ UNCHANGED closeCount
     ELSE /\ closeCount' = closeCount + 1
          /\ UNCHANGED <<dropCount, db>>
  /\ lastCall' = NoCall
  /\ lastRet' = NoRet
  /\ lastTrig' = <<>>
  /\ lastEmit' = "none"
  /\ UNCHANGED <<cat, running, cidReady, optLoad, starts, startCalls, stopCalls,
                 listeners, queue, ops, loadCount, onStopCount, startEmits,
                 stopEmits, uncovered>>

\* stop() resumes after drop()/close(): running = false, 'stop'.
StopDbDone(drop) ==
  /\ stops[<<"awaitDb", drop>>] > 0
  /\ stops' = [stops EXCEPT ![<<"awaitDb", drop>>] = @ - 1]
  /\ running' = "false"
  /\ stopEmits' = stopEmits + 1
  /\ lastCall' = NoCall
  /\ lastRet' = NoRet
  /\ lastTrig' = <<>>
  /\ lastEmit' = "none"
  /\ UNCHANGED <<cat, cidReady, optLoad, starts, startCalls, stopCalls, listeners,
                 queue, db, ops, loadCount, onStopCount, closeCount,
                 dropCount, startEmits, uncovered>>

\* ---------------------------------------------------------- mutation API
\* validCid(this._CID, cid): new CID(cid) throws on a malformed string, and
\* on any string while this._CID is still null.
validCid(ready, cid) == ready /\ cid \in Cids

\* JavaScript's !x on a content kind (undefined is falsy, a string truthy),
\* and the strict comparison a !== b of two values.
JsNot(x) == IF x = "undefined" THEN "true" ELSE "false"

StrictNeq(x, y) == x # y

\* fileCid without the catch block's fallback.
fileCidNoFallback(ready, v) == IF ~ready THEN "TypeError" ELSE v

\* _getCid's fileCid: the parsed identifier, the empty-content identifier on
\* a parse failure, and a TypeError while _CID and _emptyFile are null.
fileCid(ready, v) == IF ~ready THEN "TypeError"
                     ELSE IF v \in Cids THEN v ELSE EmptyFileCid

\* A _getCid that writes the empty-content identifier over the stored values
\* that do not parse.
getCidIndexRepair(d, path) ==
  [p \in Paths |-> IF IsPrefix(path, p) /\ exists(d, p) /\ d[p] # "dir"
                      /\ d[p] \notin Cids
                   THEN EmptyFileCid ELSE d[p]]

\* The index after an execution of _getCid(path): it calls this.fs.exists,
\* content, read and tree, and no mutator of this._db.
getCidIndex(d, path) == d

\* this.fs.tree(path): the paths below a directory.
tree(d, path) == {p \in Paths : p # path /\ IsPrefix(path, p) /\ exists(d, p)}

\* The identifier the blob store gives a directory manifest.
ManifestCid == "cidDir"

\* _getCid's ipfsTree(path) up to its call of this._ipfs.add(fsStruct): every
\* file below the path goes through fileCid, whose TypeError ends the
\* generator before the blob store is called.
ipfsTree(ready, d, path) ==
  IF \E p \in {path} \cup tree(d, path) :
       content(d, p) = "file" /\ fileCid(ready, d[p]) = "TypeError"
  THEN "TypeError"
  ELSE "added"

\* What the blob store's add(source) yields for the sources of the model, in
\* the store's order: an entry comes before the directory that holds it.
SrcFile == <<[path |-> <<"a">>, mode |-> 420, cid |-> "cidX"]>>

SrcDir == <<[path |-> <<"a", "a">>, mode |-> 420, cid |-> "cidX"],
            [path |-> <<"a">>, mode |-> 493, cid |-> "cidDir"]>>

Sources == {SrcFile, SrcDir}

\* What a remote peer's merged operation writes, and where.
RemoteOps == {[path |-> <<"a", "a">>, val |-> "cidY"]}

\* The add results taken in the blob store's order.
NoReverse(s) == s

\* results.reverse()
RECURSIVE Reverse(_)
Reverse(s) == IF s = <<>> THEN <<>> ELSE Append(Reverse(Tail(s)), Head(s))

\* upload's addToStore(content) under the upload path: the index afterwards.
addToStore(d, path, c) ==
  LET fsPath == path \o c.path
  IN  IF c.mode = 493
      THEN IF ~exists(d, fsPath) THEN DbMkdir(d, fsPath) ELSE d
      ELSE IF c.mode = 420
      THEN DbWrite(IF ~exists(d, fsPath) THEN DbMk(d, fsPath) ELSE d,
                   fsPath, c.cid)
      ELSE d

Op(ev, path, val, todo) == [ev |-> ev, path |-> path, val |-> val, todo |-> todo]

Call(op, path, name, cid, outcome, mutator) ==
  [op |-> op, path |-> path, name |-> name, cid |-> cid,
   kind |-> content(db, path), target |-> exists(db, joinPath(path, name)),
   outcome |-> outcome, mutator |-> mutator]

RemoveAt(s, i) == SubSeq(s, 1, i - 1) \o SubSeq(s, i + 1, Len(s))

\* A call that throws at a guard: nothing but the caller's promise changes.
Rejected(call) ==
  /\ lastCall' = call
  /\ lastRet' = NoRet
  /\ lastTrig' = <<>>
  /\ lastEmit' = "none"
  /\ UNCHANGED <<cat, running, cidReady, optLoad, starts, startCalls,
                 stops,
                 stopCalls, listeners, queue, db, ops, loadCount, onStopCount,
                 closeCount, dropCount, startEmits, stopEmits, uncovered>>

\* read(path) of a file: _getCid(path) returns without an await.
ReadFile(call) ==
  /\ db' = getCidIndex(db, call.path)
  /\ lastCall' = call
  /\ lastRet' = NoRet
  /\ lastTrig' = <<>>
  /\ lastEmit' = "none"
  /\ UNCHANGED <<cat, running, cidReady, optLoad, starts, startCalls,
                 stops,
                 stopCalls, listeners, queue, ops, loadCount, onStopCount,
                 closeCount, dropCount, startEmits, stopEmits, uncovered>>

\* A call that passes its guards and suspends at its first await.
Suspended(call, op) ==
  /\ Len(ops) < MaxInflight
  /\ ops' = Append(ops, op)
  /\ lastCall' = call
  /\ lastRet' = NoRet
  /\ lastTrig' = <<>>
  /\ lastEmit' = "none"
  /\ UNCHANGED <<cat, running, cidReady, optLoad, starts, startCalls,
                 stops,
                 stopCalls, listeners, queue, db, loadCount, onStopCount,
                 closeCount, dropCount, startEmits, stopEmits, uncovered>>

\* mkdir(path, name) up to await this._db.mkdir(path, name).
Mkdir(path, name) ==
  IF ~exists(db, path)
  THEN Rejected(Call("mkdir", path, name, "", Throw("pathExistNo"), FALSE))
  ELSE IF ~exists(db, joinPath(path, name))
  THEN Rejected(Call("mkdir", path, name, "", Throw("pathExistYes"), FALSE))
  ELSE Suspended(Call("mkdir", path, name, "", "inflight", TRUE),
                 Op("mkdir", joinPath(path, name), "", <<>>))

\* mkfile(path, name) up to await this._db.mk(path, name).
Mkfile(path, name) ==
  IF ~exists(db, path)
  THEN Rejected(Call("mkfile", path, name, "", Throw("pathExistNo"), FALSE))
  ELSE IF ~exists(db, joinPath(path, name))
  THEN Rejected(Call("mkfile", path, name, "", Throw("pathExistYes"), FALSE))
  ELSE Suspended(Call("mkfile", path, name, "", "inflight", TRUE),
                 Op("mkfile", joinPath(path, name), "", <<>>))

\* mutate(path, cid) up to await this._db.write(path, cid.toString()).
Mutate(path, cid) ==
  IF ~exists(db, path)
  THEN Rejected(Call("mutate", path, "", cid, Throw("pathExistNo"), FALSE))
  ELSE IF StrictNeq(JsNot(content(db, path)), "file")
  THEN Rejected(Call("mutate", path, "", cid, Throw("pathFileNo"), FALSE))
  ELSE IF ~validCid(cidReady, cid)
  THEN Rejected(Call("mutate", path, "", cid, "invalid cid", FALSE))
  ELSE Suspended(Call("mutate", path, "", cid, "inflight", TRUE),
                 Op("mutate", path, cid, <<>>))

\* remove(path) up to await this._db.rmdir(path) or this._db.rm(path).
Remove(path) ==
  IF ~exists(db, path)
  THEN Rejected(Call("remove", path, "", "", Throw("pathExistNo"), FALSE))
  ELSE Suspended(Call("remove", path, "", "", "inflight", TRUE),
                 Op(IF content(db, path) = "dir" THEN "rmdir" ELSE "rm",
                    path, "", <<>>))

\* read(path): the guard, then _getCid(path) up to its return (a file) or
\* up to await last(ipfsTree(path)) (a directory).
Read(path) ==
  IF ~exists(db, path)
  THEN Rejected(Call("read", path, "", "", Throw("pathExistNo"), FALSE))
  ELSE IF content(db, path) = "file"
  THEN ReadFile(Call("read", path, "", "",
                     IF fileCid(cidReady, db[path]) = "TypeError"
                     THEN "undefined" ELSE fileCid(cidReady, db[path]),
                     FALSE))
  ELSE Suspended(Call("read", path, "", "", "inflight", FALSE),
                 Op("read", path, ipfsTree(cidReady, db, path), <<running>>))

\* upload(path, source) up to await all(this._ipfs.add(source, ...)).
Upload(path, source) ==
  IF content(db, path) # "dir"
  THEN Rejected(Call("upload", path, "", "", Throw("pathDirNo"), FALSE))
  ELSE Suspended(Call("upload", path, "", "", "inflight", FALSE),
                 Op("add", path, "", source))

\* The event a resolved index mutator is followed by.
EventOf(ev) == IF ev \in {"rm", "rmdir"} THEN "remove" ELSE ev

\* The index after the mutator of the suspended call has been applied.
Applied(d, op) ==
  IF op.ev = "mkdir" THEN DbMkdir(d, op.path)
  ELSE IF op.ev = "mkfile" THEN DbMk(d, op.path)
  ELSE IF op.ev = "mutate" THEN DbWrite(d, op.path, op.val)
  ELSE IF op.ev = "rm" THEN DbRm(d, op.path)
  ELSE IF op.ev = "rmdir" THEN DbRmdir(d, op.path)
  ELSE d

\* emit(signal) on this.events or this._db.events.
Emit(sig) ==
  /\ queue' = Deliver(queue, listeners[sig])
  /\ lastTrig' = TrigLog(queue, listeners[sig])
  /\ lastEmit' = sig
  /\ uncovered' = Cover(queue, queue')

\* The awaited index mutator of mkdir, mkfile, mutate or remove resolves:
\* the call resumes and emits its event.
DbResolve(i) ==
  /\ ops[i].ev \in {"mkdir", "mkfile", "mutate", "rm", "rmdir"}
  /\ db' = Applied(db, ops[i])
  /\ ops' = RemoveAt(ops, i)
  /\ Emit(EventOf(ops[i].ev))
  /\ lastCall' = NoCall
  /\ lastRet' = Ret(ops[i], "resolved")
  /\ UNCHANGED <<cat, running, cidReady, optLoad, starts, startCalls,
                 stops,
                 stopCalls, listeners, loadCount, onStopCount, closeCount,
                 dropCount, startEmits, stopEmits>>

\* The awaited collaborator call rejects: the call throws, nothing is emitted.
DbReject(i) ==
  /\ ops[i].ev # "read"
  /\ ops' = RemoveAt(ops, i)
  /\ lastCall' = NoCall
  /\ lastRet' = Ret(ops[i], "rejected")
  /\ lastTrig' = <<>>
  /\ lastEmit' = "none"
  /\ UNCHANGED <<cat, running, cidReady, optLoad, starts, startCalls,
                 stops,
                 stopCalls, listeners, queue, db, loadCount, onStopCount,
                 closeCount, dropCount, startEmits, stopEmits, uncovered>>

\* read's _getCid(path) of a directory returns: the manifest identifier the
\* blob store yielded last, or undefined from the catch block that logs the
\* TypeError of ipfsTree.
ReadDone(i) ==
  /\ ops[i].ev = "read"
  /\ ops' = RemoveAt(ops, i)
  /\ db' = getCidIndex(db, ops[i].path)
  /\ lastCall' = NoCall
  /\ lastRet' = Ret(ops[i], IF ops[i].val = "TypeError"
                            THEN "undefined" ELSE ManifestCid)
  /\ lastTrig' = <<>>
  /\ lastEmit' = "none"
  /\ UNCHANGED <<cat, running, cidReady, optLoad, starts, startCalls,
                 stops,
                 stopCalls, listeners, queue, loadCount, onStopCount,
                 closeCount, dropCount, startEmits, stopEmits, uncovered>>

\* The blob store rejects the add (or a cat) of read's _getCid(path): the
\* catch block logs the error and _getCid returns undefined.
ReadFail(i) ==
  /\ ops[i].ev = "read"
  /\ ops[i].val = "added"
  /\ ops' = RemoveAt(ops, i)
  /\ db' = getCidIndex(db, ops[i].path)
  /\ lastCall' = NoCall
  /\ lastRet' = Ret(ops[i], "undefined")
  /\ lastTrig' = <<>>
  /\ lastEmit' = "none"
  /\ UNCHANGED <<cat, running, cidReady, optLoad, starts, startCalls,
                 stops,
                 stopCalls, listeners, queue, loadCount, onStopCount,
                 closeCount, dropCount, startEmits, stopEmits, uncovered>>

\* upload resumes with the add results: reverse(), then the reduce begins.
UploadAdded(i) ==
  /\ ops[i].ev = "add"
  /\ ops' = [ops EXCEPT ![i] = Op("upload", @.path, "", Reverse(@.todo))]
  /\ lastCall' = NoCall
  /\ lastRet' = NoRet
  /\ lastTrig' = <<>>
  /\ lastEmit' = "none"
  /\ UNCHANGED <<cat, running, cidReady, optLoad, starts, startCalls,
                 stops,
                 stopCalls, listeners, queue, db, loadCount, onStopCount,
                 closeCount, dropCount, startEmits, stopEmits, uncovered>>

\* A reduce that is over while one add result is still to be applied.
reduceDoneEarly(todo) == Len(todo) <= 1

\* upload's await of the reduce is over once every add result is applied.
reduceDone(todo) == todo = <<>>

\* upload's reduce: the next result goes through addToStore; after the last
\* one 'upload' is emitted.
UploadStep(i) ==
  /\ ops[i].ev = "upload"
  /\ lastCall' = NoCall
  /\ IF ~reduceDone(ops[i].todo)
     THEN /\ db' = addToStore(db, ops[i].path, Head(ops[i].todo))
          /\ ops' = [ops EXCEPT ![i].todo = Tail(@)]
          /\ lastRet' = NoRet
          /\ lastTrig' = <<>>
          /\ lastEmit' = "none"
          /\ UNCHANGED <<queue, uncovered>>
     ELSE /\ ops' = RemoveAt(ops, i)
          /\ lastRet' = Ret(ops[i], "resolved")
          /\ Emit("upload")
          /\ UNCHANGED db
  /\ UNCHANGED <<cat, running, cidReady, optLoad, starts, startCalls,
                 stops,
                 stopCalls, listeners, loadCount, onStopCount, closeCount,
                 dropCount, startEmits, stopEmits>>

\* The index merges a remote operation and emits 'replicated'.
Replicated(r) ==
  /\ db[prefix(r.path)] = "dir"
  /\ db[r.path] # "dir"
  /\ db[r.path] # r.val
  /\ db' = [db EXCEPT ![r.path] = r.val]
  /\ Emit("replicated")
  /\ lastCall' = NoCall
  /\ lastRet' = NoRet
  /\ UNCHANGED <<cat, running, cidReady, optLoad, starts, startCalls,
                 stops,
                 stopCalls, listeners, ops, loadCount, onStopCount,
                 closeCount, dropCount, startEmits, stopEmits>>

\* A recompute job (_getCid of the root) finishes; PQueue starts the next.
JobFinish ==
  /\ queue.pending > 0
  /\ queue' = TryToStartAnother([queue EXCEPT !.pending = @ - 1])
  /\ uncovered' = (IF queue.size > 0 /\ queue'.size < queue.size
                   THEN FALSE ELSE uncovered)
  /\ db' = getCidIndex(db, Root)
  /\ lastCall' = NoCall
  /\ lastRet' = NoRet
  /\ lastTrig' = <<>>
  /\ lastEmit' = "none"
  /\ UNCHANGED <<cat, running, cidReady, optLoad, starts, startCalls,
                 stops,
                 stopCalls, listeners, ops, loadCount, onStopCount,
                 closeCount, dropCount, startEmits, stopEmits>>

\* Lifecycle, queue and replication.  The API is called at the root, one
\* call at a time, and with arguments that get the call past its guards:
\* the handler treats every signal alike, so what the lifecycle sees of the
\* API is when its events are emitted.  remove, upload and read stand for
\* the API here; mkdir, mkfile and mutate are left to NextApi.
Next ==
  \/ StartCall
  \/ StartAdded
  \/ StartLoaded
  \/ \E drop \in BOOLEAN : StopCall(drop)
  \/ \E drop \in BOOLEAN : StopHookDone(drop)
  \/ \E drop \in BOOLEAN : StopIdle(drop)
  \/ \E drop \in BOOLEAN : StopDbDone(drop)
  \/ JobFinish
  \/ ops = <<>> /\ \E name \in Names : Remove(<<name>>) /\ ops' # ops
  \/ ops = <<>> /\ Read(Root)
  \/ ops = <<>> /\ Upload(Root, SrcFile)
  \/ \E i \in 1..Len(ops) : DbResolve(i)
  \/ \E i \in 1..Len(ops) : DbReject(i)
  \/ \E i \in 1..Len(ops) : ReadDone(i)
  \/ \E i \in 1..Len(ops) : ReadFail(i)
  \/ \E i \in 1..Len(ops) : UploadAdded(i)
  \/ \E i \in 1..Len(ops) : UploadStep(i)
  \/ \E r \in RemoteOps : Replicated(r)

Spec == Init /\ [][Next]_vars

\* PQueue runs every job it has started to its end (every job terminates).
FairSpec == Spec /\ WF_vars(JobFinish)

\* A call made while another call is suspended gets past its guards.  (A
\* call that ends at a guard changes nothing, and how it ends depends on the
\* index and on _CID alone; every index a suspended call can see is also
\* seen with no call suspended, so such a call is made then.)
Overlaps == ops = <<>> \/ ops' # ops

\* The API on every path and source, on an engine that is not stopped.
NextApi ==
  \/ startCalls = 0 /\ StartCall
  \/ StartAdded
  \/ StartLoaded
  \/ JobFinish
  \/ \E path \in Paths, name \in Names : Mkdir(path, name) /\ Overlaps
  \/ \E path \in Paths, name \in Names : Mkfile(path, name) /\ Overlaps
  \/ \E path \in Paths, cid \in Cids \cup {"bad"} :
       Mutate(path, cid) /\ Overlaps
  \/ \E path \in Paths : Remove(path) /\ Overlaps
  \/ \E path \in Paths : Read(path) /\ Overlaps
  \/ \E path \in Paths, source \in Sources : Upload(path, source) /\ Overlaps
  \/ \E i \in 1..Len(ops) : DbResolve(i)
  \/ \E i \in 1..Len(ops) : DbReject(i)
  \/ \E i \in 1..Len(ops) : ReadDone(i)
  \/ \E i \in 1..Len(ops) : ReadFail(i)
  \/ \E i \in 1..Len(ops) : UploadAdded(i)
  \/ \E i \in 1..Len(ops) : UploadStep(i)
  \/ \E r \in RemoteOps : Replicated(r)

ApiSpec == Init /\ [][NextApi]_vars

\* util's catCid on every blob, with and without a cipher bundle.
NextCat ==
  \/ \E blob \in Blobs, crypter \in BOOLEAN, key \in KeyArgs, iv \in IvArgs :
       CatCall(blob, crypter, key, iv)
  \/ CatGot
  \/ CatStoreFails
  \/ CatCombined
  \/ CatImported
  \/ CatCreated
  \/ CatDecrypted

CatSpec == Init /\ [][NextCat]_vars

\* ------------------------------------------------------------------ claims

\* C1: at most one recompute job of the update queue is executing at any
\* moment; a waiting job does not begin before the executing one finished.
C1_OneJobAtATime == queue.pending <= 1

\* C1 witness: a job waits in the queue while another one is executing.
C1_Witness == queue.pending = 1 /\ queue.size = 1

\* C2: once stop() has called close() or drop() on the index, no recompute
\* job is executing or waiting, at that moment or at any later one.
C2_NoJobOnReleasedIndex == closeCount + dropCount > 0 => Idle(queue)

C4_EventCovered == uncovered ~> ~uncovered

\* C4 witness: an event arrived during a job, and its job is still waiting.
C4_Witness == uncovered /\ queue.pending = 1 /\ queue.size = 1

\* C5: whatever the start() calls, the index is loaded at most once, the
\* handler is registered at most once per signal and 'start' is emitted at
\* most once.
C5_StartEffectsOnce ==
  /\ loadCount <= 1
  /\ startEmits <= 1
  /\ \A s \in Signals : listeners[s] <= 1

\* C6: whatever the stop() calls, the teardown hook runs at most once, the
\* index is closed or dropped at most once and 'stop' is emitted at most once.
C6_StopEffectsOnce ==
  /\ onStopCount <= 1
  /\ closeCount + dropCount <= 1
  /\ stopEmits <= 1

\* C7: a stopped engine never becomes running again, and a start() call made
\* when the state is not notStarted changes neither state nor subscriptions.
C7_RunStateOrder ==
  [][/\ running = "false" => running' = "false"
     /\ running # "null" => starts'["awaitAdd"] <= starts["awaitAdd"]
    ]_vars

\* C8: mkdir/mkfile on an existing parent are accepted (the index mutator is
\* called) when the target does not exist, and fail with path-already-exists
\* before the index is touched when it does.
C8_MkdirMkfile ==
  (lastCall.op \in {"mkdir", "mkfile"} /\ lastCall.kind # "undefined")
    => IF lastCall.target
       THEN lastCall.outcome = "pathExistYes" /\ ~lastCall.mutator
       ELSE lastCall.outcome = "inflight" /\ lastCall.mutator

\* C9: mutate of an existing file with a valid identifier, on a started
\* engine, reaches the index write (and does not throw).
C9_MutateWrites ==
  (lastCall.op = "mutate" /\ lastCall.kind = "file" /\ lastCall.cid \in Cids
     /\ cidReady)
    => lastCall.outcome = "inflight" /\ lastCall.mutator

\* The preconditions of the API table, violated by the call c.
PreconditionViolated(c) ==
  \/ c.op = "upload" /\ c.kind # "dir"
  \/ c.op \in {"mkdir", "mkfile"} /\ (c.kind = "undefined" \/ c.target)
  \/ c.op = "mutate" /\ (c.kind # "file" \/ c.cid \notin Cids)
  \/ c.op \in {"read", "remove"} /\ c.kind = "undefined"

\* C10: a call with a violated precondition fails before any index mutator
\* or blob-store call is made.
C10_FailsBeforeIO ==
  PreconditionViolated(lastCall)
    => lastCall.outcome # "inflight" /\ ~lastCall.mutator

\* C11: while the engine is running, a read of the root path never throws
\* and returns an identifier; when the materialization fails the result is
\* the empty-content identifier, never undefined.  The state is one in which
\* a read of the root, called on a running engine, has just returned.
C11_ReadRootReturnsCid ==
  (lastRet.ev = "read" /\ lastRet.path = Root /\ lastRet.state = "true"
     /\ running = "true")
    => lastRet.outcome \in Cids \cup {EmptyFileCid, ManifestCid}

\* C12: on a running engine, read(path) of an existing file returns the
\* identifier parsed from the stored value when that value is a valid
\* identifier and the empty-content identifier otherwise; a malformed stored
\* value never makes it throw.
C12_ReadFile ==
  (lastCall.op = "read" /\ lastCall.kind = "file" /\ running = "true")
    => lastCall.outcome = (IF db[lastCall.path] \in Cids
                           THEN db[lastCall.path] ELSE EmptyFileCid)

\* C12 witness: a read of a file whose stored value does not parse has
\* returned the empty-content identifier.
C12_Witness ==
  /\ lastCall.op = "read" /\ lastCall.kind = "file" /\ running = "true"
  /\ db[lastCall.path] = "bad"
  /\ lastCall.outcome = EmptyFileCid

\* The signals of the five mutation operations.
MutationSignals == {"upload", "mkdir", "mkfile", "mutate", "remove"}

\* C13: a mutation operation that completes emits its own event, once, and
\* only after all of its index writes have completed; an operation that
\* fails emits nothing; and a recompute job is added to the queue only by
\* start's trigger, by 'replicated' or by one of these events.
C13_EventAfterWrites ==
  [][/\ lastRet'.outcome = "resolved" => lastEmit' = EventOf(lastRet'.ev)
     /\ lastEmit' \in MutationSignals =>
          /\ lastRet'.outcome = "resolved"
          /\ lastEmit' = EventOf(lastRet'.ev)
          /\ lastRet'.left = 0
          /\ \E i \in 1..Len(ops) : /\ ops' = RemoveAt(ops, i)
                                     /\ lastRet'.ev = ops[i].ev
                                     /\ db' = Applied(db, ops[i])
     /\ (lastCall'.op # "none" \/ lastRet'.outcome = "rejected")
          => lastEmit' = "none"
     /\ Jobs(queue') > Jobs(queue)
          => lastEmit' \in MutationSignals \cup {"trigger", "replicated"}
    ]_vars

\* C13 witness: an upload has applied all its add results and emitted
\* 'upload', on which the subscribed handler added a job.
C13_Witness ==
  /\ lastEmit = "upload" /\ lastRet.outcome = "resolved"
  /\ lastTrig # <<>> /\ lastTrig[1].added = 1

C15_DecryptFailureEmpty ==
  (cat.pc = "done" /\ cat.failed \in {"import", "decrypt"})
    => cat.result = Returned(EmptyBytes)

\* C15 witness: the ciphertext was read with a key other than the one it
\* was encrypted under, and the call has returned the empty sequence.
C15_Witness ==
  /\ cat.pc = "done" /\ cat.failed = "decrypt"
  /\ cat.blob.kind = "cipher" /\ cat.cryptoKey = "k2"
  /\ cat.iv = fromByteArray("iv1")
  /\ cat.result = Returned(EmptyBytes)

Materializing ==
  queue.pending + Cardinality({i \in 1..Len(ops) : ops[i].ev = "read"})

\* C17: at most one execution of the materialization (_getCid) is in
\* progress at any time, the jobs of the queue and the executions started
\* by read(path) taken together.
C17_OneMaterialization == Materializing <= 1

\* C18: in every reachable state the update queue holds at most one
\* waiting job besides at most one executing job, however many triggers
\* arrive.
C18_QueueBounded == queue.size <= 1 /\ queue.pending <= 1

\* C18 witness: a signal registered more than once was delivered while a
\* job was executing and another one waiting; the queue stays as it was.
C18_Witness ==
  /\ queue.pending = 1 /\ queue.size = 1
  /\ Len(lastTrig) >= 2
  /\ \A k \in 1..Len(lastTrig) :
       lastTrig[k].waiting = 1 /\ lastTrig[k].added = 0

\* C19: once a stop() call has completed, no recompute job is added to the
\* queue and none begins executing, whatever follows and whatever was still
\* in flight.
C19_NoJobAfterStop ==
  [][stopEmits > 0 =>
       /\ Jobs(queue') <= Jobs(queue)
       /\ queue'.pending <= queue.pending]_vars

\* C20: read(path) and the recompute jobs only read the index: the step in
\* which a read is called, a read returns or a job ends leaves the index
\* contents and the run state as they were.
C20_ReadOnly ==
  [][(lastCall'.op = "read" \/ lastRet'.ev = "read"
        \/ Jobs(queue') < Jobs(queue))
       => db' = db /\ running' = running]_vars

\* C20 witness: on a running engine a read of a directory above a file
\* whose stored value does not parse has returned the manifest identifier,
\* and the stored value is still there.
C20_Witness ==
  /\ lastRet.ev = "read" /\ lastRet.outcome = ManifestCid
  /\ running = "true"
  /\ \E p \in Paths : IsPrefix(lastRet.path, p) /\ db[p] = "bad"

====
